---- MODULE Spec2Model ----
(***************************************************************************)
(* Model of src/src/index.ts: one run of the release-notes action.         *)
(*                                                                         *)
(* Texts (commit messages, titles, comment bodies) are sequences of atoms. *)
(* An atom is one character (a bracket, a star, a blank, a newline, a      *)
(* digit, a letter) or an opaque run of ordinary characters (TECH, Link:)  *)
(* that none of the program's patterns look into.                          *)
(***************************************************************************)
EXTENDS Integers, Sequences, FiniteSets, TLC

(***************************************************************************)
(* Bounds of the model.                                                    *)
(***************************************************************************)
\* Longest run of non-filler commit messages on the pull request.
MaxMsgs == 3

(***************************************************************************)
(* Program constants.                                                      *)
(***************************************************************************)
\* per_page of the commits request.
PerPage == 100
\* The thresholds the paging loop iterates over.
PageMaxes == <<0, 100, 200>>
\* The commit count that triggers the warning; also the endpoint's ceiling.
CommitCeiling == 250
issueTypeLabels == <<"bug", "feature", "chore">>

Min(a, b) == IF a < b THEN a ELSE b

Digits == {"0", "1", "2", "3", "4", "5", "6", "7", "8", "9"}
Whitespace == {" ", "\n", "\t"}
\* The grave accent character (a TLA+ string cannot hold it) and the double
\* quote the title normalisation puts in its place.
Backtick == "<backtick>"
DQuote == "\""

\* An optional text: absent (undefined / null) or present.
Absent == [some |-> FALSE, text |-> <<>>]
Some(t) == [some |-> TRUE, text |-> t]

(***************************************************************************)
(* Text helpers of the JavaScript runtime, as the program uses them.       *)
(***************************************************************************)
\* String.prototype.trim
RECURSIVE TrimStart(_)
TrimStart(s) ==
  IF s # <<>> /\ Head(s) \in Whitespace THEN TrimStart(Tail(s)) ELSE s

RECURSIVE TrimEnd(_)
TrimEnd(s) ==
  IF s # <<>> /\ s[Len(s)] \in Whitespace
    THEN TrimEnd(SubSeq(s, 1, Len(s) - 1))
    ELSE s

Trim(s) == TrimEnd(TrimStart(s))

\* String.prototype.replace with a string pattern of one character:
\* only the first occurrence is replaced.
RECURSIVE ReplaceFirst(_, _, _)
ReplaceFirst(s, from, to) ==
  IF s = <<>> THEN <<>>
  ELSE IF Head(s) = from THEN <<to>> \o Tail(s)
  ELSE <<Head(s)>> \o ReplaceFirst(Tail(s), from, to)

\* The global replace of the formatter: every non-overlapping pair of stars,
\* scanning left to right, becomes one star.
RECURSIVE ReplaceStars(_)
ReplaceStars(s) ==
  IF s = <<>> THEN <<>>
  ELSE IF Len(s) >= 2 /\ s[1] = "*" /\ s[2] = "*"
    THEN <<"*">> \o ReplaceStars(SubSeq(s, 3, Len(s)))
  ELSE <<Head(s)>> \o ReplaceStars(Tail(s))

formatCommentBodyForGoogleChat(commentBody_) ==
  <<Backtick, Backtick, Backtick, "\n">> \o ReplaceStars(commentBody_)
    \o <<Backtick, Backtick, Backtick>>

(***************************************************************************)
(* Commit message -> issue id: the anchored pattern of the resolver, an    *)
(* opening bracket, HK-, one or more digits, a closing bracket.            *)
(***************************************************************************)
\* Length of the greedy run of digits of s starting at position i.
RECURSIVE DigitRun(_, _)
DigitRun(s, i) ==
  IF i <= Len(s) /\ s[i] \in Digits THEN 1 + DigitRun(s, i + 1) ELSE 0

\* The capture of group 1 when the pattern matches message at position p, or
\* the falsy value (the empty text) when it does not.
MatchAt(message, p) ==
  LET n == DigitRun(message, p + 4)
  IN IF /\ Len(message) >= p + 4 + n
        /\ message[p] = "["
        /\ message[p + 1] = "H"
        /\ message[p + 2] = "K"
        /\ message[p + 3] = "-"
        /\ n >= 1
        /\ message[p + 4 + n] = "]"
       THEN SubSeq(message, p + 1, p + 3 + n)
       ELSE <<>>

\* The pattern without its anchor: the leftmost match anywhere in the message.
MatchIdUnanchored(message) ==
  LET hits == { p \in 1..Len(message) : MatchAt(message, p) # <<>> }
  IN IF hits = {} THEN <<>>
     ELSE MatchAt(message, CHOOSE p \in hits : \A q \in hits : p <= q)

\* The pattern is anchored at the start of the message.
MatchId(message) == MatchAt(message, 1)

\* .filter(ticket => ticket): keeps the truthy (non-empty) entries.
Truthy(t) == t # <<>>
FilterTruthy(s) == SelectSeq(s, Truthy)

\* [...new Set(ids)]: a Set iterates in insertion order, and adding a value
\* it already holds does nothing.
RECURSIVE SetOf(_, _)
SetOf(ids, acc) ==
  IF ids = <<>> THEN acc
  ELSE IF \E j \in 1..Len(acc) : acc[j] = Head(ids)
    THEN SetOf(Tail(ids), acc)
  ELSE SetOf(Tail(ids), Append(acc, Head(ids)))

ResolveIssueIds(commitList) ==
  SetOf(FilterTruthy([i \in 1..Len(commitList) |-> MatchId(commitList[i])]), <<>>)

(***************************************************************************)
(* The two services the run talks to.                                      *)
(***************************************************************************)
\* Commit messages a pull request may carry.
MessagePool ==
  { <<"[", "H", "K", "-", "1", "]", " ", "fix">>,
    <<"other", " ", "change">>,
    <<"[", "H", "K", "-", "1", "]", " ", "fix", " ", "again">>,
    <<"[", "H", "K", "-", "2", "]", " ", "add">>,
    <<"see", " ", "[", "H", "K", "-", "3", "]">>,
    <<"[", "H", "K", "-", "1", "2", "]">>,
    <<"[", "H", "K", "-", "]", " ", "none">> }

\* A commit message that carries no marker, used to fill a long pull request.
FillerMessage == <<"wip">>
Filler(n) == [i \in 1..n |-> FillerMessage]

\* How many filler commits precede and follow the interesting ones.
Layouts == { <<0, 0>>, <<98, 0>>, <<198, 0>>, <<248, 0>>, <<0, 100>>, <<0, 250>> }

RECURSIVE SeqsUpTo(_, _)
SeqsUpTo(S, n) ==
  IF n = 0 THEN { <<>> }
  ELSE LET shorter == SeqsUpTo(S, n - 1)
       IN shorter \cup { Append(q, x) : q \in shorter, x \in S }

PullRequests ==
  { Filler(l[1]) \o m \o Filler(l[2]) : l \in Layouts, m \in SeqsUpTo(MessagePool, MaxMsgs) }

\* GET /repos/{owner}/{repo}/pulls/{pull_number}/commits with per_page 100:
\* page p of the list, which the endpoint cuts at 250 commits.
PageOf(list, p) ==
  LET served == Min(Len(list), CommitCeiling)
  IN SubSeq(list, (p - 1) * PerPage + 1, Min(p * PerPage, served))

\* The issue tracker's record of an identifier.
UrlBase == "https://linear.app/hk/issue/"
IssueUrl(id) == <<UrlBase>> \o id

IssueOf(id) ==
  CASE id = <<"H", "K", "-", "1">> ->
         [ identifier |-> id, url |-> IssueUrl(id),
           title |-> <<" ", Backtick, "fix", Backtick, " ", "login", " ">>,
           labelIds |-> {"feature", "bug"},
           description |-> Some(<<"Notes A", "\n", "---Release---", "\n", "First",
                                  "\n", "---Release---", "\n", "Second">>) ]
    [] id = <<"H", "K", "-", "2">> ->
         [ identifier |-> id, url |-> IssueUrl(id),
           title |-> <<Backtick, "add", Backtick, Backtick, " ", "export">>,
           labelIds |-> {},
           description |-> Absent ]
    [] id = <<"H", "K", "-", "1", "2">> ->
         [ identifier |-> id, url |-> IssueUrl(id),
           title |-> <<"multi", Backtick>>,
           labelIds |-> {"chore", "infra"},
           description |-> Some(<<"no", " ", "notes">>) ]
    [] OTHER ->
         [ identifier |-> id, url |-> IssueUrl(id),
           title |-> <<"untitled">>,
           labelIds |-> {"feature"},
           description |-> Some(<<"---Release---", "\n", " ">>) ]

(***************************************************************************)
(* The release-note extractor (./utils): the text after the last section   *)
(* marker of the description, trimmed; absent without a description or a   *)
(* marker.                                                                 *)
(***************************************************************************)
ReleaseMarker == "---Release---"

extractLastReleaseMessage(description) ==
  IF ~description.some THEN Absent
  ELSE LET d == description.text
           marks == { i \in 1..Len(d) : d[i] = ReleaseMarker }
       IN IF marks = {} THEN Absent
          ELSE LET last == CHOOSE i \in marks : \A j \in marks : j <= i
               IN Some(Trim(SubSeq(d, last + 1, Len(d))))

(***************************************************************************)
(* The composer.                                                           *)
(***************************************************************************)
\* The first label of issueTypeLabels the issue carries, or undefined.
IssueType(labelIds) ==
  LET hits == { i \in 1..Len(issueTypeLabels) : issueTypeLabels[i] \in labelIds }
  IN IF hits = {} THEN Absent
     ELSE Some(<<issueTypeLabels[CHOOSE i \in hits : \A j \in hits : i <= j]>>)

IssueTitle(issue) == Trim(ReplaceFirst(issue.title, Backtick, DQuote))

\* One pass of the body of the composing loop.
ComposeBlock(issue) ==
  LET issueType == IssueType(issue.labelIds)
      releaseNotes == extractLastReleaseMessage(issue.description)
      title == IssueTitle(issue)
  IN <<"*", "*", "TECH">>
       \o (IF issueType.some THEN <<" ", "(">> \o issueType.text \o <<")">> ELSE <<>>)
       \o <<":", " ">> \o title \o <<"*", "*", "\n">>
       \o (IF releaseNotes.some /\ releaseNotes.text # <<>>
             THEN releaseNotes.text \o <<"\n">>
             ELSE <<>>)
       \o <<"*", "*", "Link:", "*", "*", " ">> \o issue.url
       \o <<"\n", "\n">>

\* The blocks in reverse: each block put before the body built so far.
RECURSIVE ComposeBodyReversed(_)
ComposeBodyReversed(issueList) ==
  IF issueList = <<>> THEN <<>>
  ELSE ComposeBodyReversed(Tail(issueList)) \o ComposeBlock(Head(issueList))

RECURSIVE ComposeBody(_)
ComposeBody(issueList) ==
  IF issueList = <<>> THEN <<>>
  ELSE ComposeBlock(Head(issueList)) \o ComposeBody(Tail(issueList))

WarningText ==
  <<"### Warning: Github API returns a maximum of 250 commits.",
    "Some release notes may be missing.", "\n", "\n">>

\* The warning only above the ceiling.
CommentWarningAbove(commitCount) ==
  IF commitCount > CommitCeiling THEN WarningText ELSE <<>>

CommentWarning(commitCount) ==
  IF commitCount = CommitCeiling THEN WarningText ELSE <<>>

(***************************************************************************)
(* The state of one run.                                                   *)
(***************************************************************************)
VARIABLES
  hasPR,          \* github.context.payload.pull_request is set
  prCommits,      \* the commits of the pull request, as the host holds them
  pc,             \* where the run is
  commits,        \* the commits collected so far
  page,           \* the next page to request
  maxIdx,         \* position of the paging loop in PageMaxes
  issueIds,       \* the de-duplicated issue ids
  issueIdx,       \* position of the lookup loop in issueIds
  issues,         \* the issue records retrieved
  commentWarning,
  commentBody,
  requests,       \* the commit-page requests made, with their outcome
  lookups,        \* the issue lookups made, with their outcome
  posts,          \* the bodies handed to createComment
  failures        \* the errors handed to core.setFailed

vars ==
  << hasPR, prCommits, pc, commits, page, maxIdx, issueIds, issueIdx, issues,
     commentWarning, commentBody, requests, lookups, posts, failures >>

env == << hasPR, prCommits >>

Init ==
  /\ hasPR \in BOOLEAN
  /\ prCommits \in PullRequests
  /\ pc = "start"
  /\ commits = <<>>
  /\ page = 1
  /\ maxIdx = 1
  /\ issueIds = <<>>
  /\ issueIdx = 1
  /\ issues = <<>>
  /\ commentWarning = <<>>
  /\ commentBody = <<>>
  /\ requests = <<>>
  /\ lookups = <<>>
  /\ posts = <<>>
  /\ failures = <<>>

\* The catch of run: core.setFailed(error), and the run is over.
SetFailed(error) ==
  /\ failures' = Append(failures, error)
  /\ pc' = "done"

\* The entry without the check of the pull-request context.
StartWithoutCheck ==
  /\ pc = "start"
  /\ pc' = "paging"
  /\ commits' = <<>>
  /\ page' = 1
  /\ maxIdx' = 1
  /\ UNCHANGED << env, issueIds, issueIdx, issues, commentWarning, commentBody,
                  requests, lookups, posts, failures >>

\* Entry of run up to the paging loop.
Start ==
  /\ pc = "start"
  /\ IF ~hasPR
       THEN /\ SetFailed("No pull request found.")
            /\ UNCHANGED << commits, page, maxIdx >>
       ELSE /\ pc' = "paging"
            /\ commits' = <<>>
            /\ page' = 1
            /\ maxIdx' = 1
            /\ UNCHANGED failures
  /\ UNCHANGED << env, issueIds, issueIdx, issues, commentWarning, commentBody,
                  requests, lookups, posts >>

\* The loop without its early exit.
PagingOverNoBreak == maxIdx > Len(PageMaxes)

\* The paging loop is over: its thresholds are used up, or it breaks early.
PagingOver ==
  IF maxIdx > Len(PageMaxes) THEN TRUE ELSE Len(commits) < PageMaxes[maxIdx]

\* One pass of the paging loop that requests a page.
FetchPage ==
  /\ pc = "paging"
  /\ ~PagingOver
  /\ \/ LET data == PageOf(prCommits, page)
        IN /\ requests' = Append(requests, [page |-> page, per_page |-> PerPage,
                                            ok |-> TRUE, count |-> Len(data)])
           /\ commits' = commits \o data
           /\ page' = page + 1
           /\ maxIdx' = maxIdx + 1
           /\ UNCHANGED << pc, failures >>
     \/ /\ requests' = Append(requests, [page |-> page, per_page |-> PerPage,
                                         ok |-> FALSE, count |-> 0])
        /\ SetFailed("request failed")
        /\ UNCHANGED << commits, page, maxIdx >>
  /\ UNCHANGED << env, issueIds, issueIdx, issues, commentWarning, commentBody,
                  lookups, posts >>

\* The resolution without the early return.
ResolveIdsNoEarlyReturn ==
  /\ pc = "paging"
  /\ PagingOver
  /\ issueIds' = ResolveIssueIds(commits)
  /\ pc' = "lookup"
  /\ issues' = <<>>
  /\ issueIdx' = 1
  /\ UNCHANGED << env, commits, page, maxIdx, commentWarning, commentBody,
                  requests, lookups, posts, failures >>

\* After the paging loop: the ids of the commit messages, de-duplicated, and
\* the early return when there are none.
ResolveIds ==
  /\ pc = "paging"
  /\ PagingOver
  /\ issueIds' = ResolveIssueIds(commits)
  /\ IF issueIds' = <<>>
       THEN pc' = "done"
       ELSE pc' = "lookup"
  /\ issues' = <<>>
  /\ issueIdx' = 1
  /\ UNCHANGED << env, commits, page, maxIdx, commentWarning, commentBody,
                  requests, lookups, posts, failures >>

\* The lookup whose failure still leaves a record in the list.
LookupPushesOnFailure ==
  /\ pc = "lookup"
  /\ issueIdx <= Len(issueIds)
  /\ LET issueId == issueIds[issueIdx]
     IN /\ issues' = Append(issues, IssueOf(issueId))
        /\ \E ok \in BOOLEAN : lookups' = Append(lookups, [id |-> issueId, ok |-> ok])
  /\ issueIdx' = issueIdx + 1
  /\ UNCHANGED << env, pc, commits, page, maxIdx, issueIds, commentWarning,
                  commentBody, requests, posts, failures >>

\* The lookup without its own try: a failure reaches the catch of run.
LookupFailureFatal ==
  /\ pc = "lookup"
  /\ issueIdx <= Len(issueIds)
  /\ LET issueId == issueIds[issueIdx]
     IN \/ /\ issues' = Append(issues, IssueOf(issueId))
           /\ lookups' = Append(lookups, [id |-> issueId, ok |-> TRUE])
           /\ issueIdx' = issueIdx + 1
           /\ UNCHANGED << pc, failures >>
        \/ /\ lookups' = Append(lookups, [id |-> issueId, ok |-> FALSE])
           /\ SetFailed("lookup failed")
           /\ UNCHANGED << issues, issueIdx >>
  /\ UNCHANGED << env, commits, page, maxIdx, issueIds, commentWarning,
                  commentBody, requests, posts >>

\* One pass of the lookup loop: the record is pushed, or the error is logged.
Lookup ==
  /\ pc = "lookup"
  /\ issueIdx <= Len(issueIds)
  /\ LET issueId == issueIds[issueIdx]
     IN \/ /\ issues' = Append(issues, IssueOf(issueId))
           /\ lookups' = Append(lookups, [id |-> issueId, ok |-> TRUE])
        \/ /\ issues' = issues
           /\ lookups' = Append(lookups, [id |-> issueId, ok |-> FALSE])
  /\ issueIdx' = issueIdx + 1
  /\ UNCHANGED << env, pc, commits, page, maxIdx, issueIds, commentWarning,
                  commentBody, requests, posts, failures >>

\* The composition that posts whatever the body is.
ComposePostsAlways ==
  /\ pc = "lookup"
  /\ issueIdx > Len(issueIds)
  /\ commentWarning' = CommentWarning(Len(commits))
  /\ commentBody' = ComposeBody(issues)
  /\ posts' = Append(posts, commentWarning'
                             \o formatCommentBodyForGoogleChat(commentBody'))
  /\ pc' = "posting"
  /\ UNCHANGED << env, commits, page, maxIdx, issueIds, issueIdx, issues,
                  requests, lookups, failures >>

\* After the lookup loop: the warning, the body, and the call of
\* createComment when the body is not empty.
Compose ==
  /\ pc = "lookup"
  /\ issueIdx > Len(issueIds)
  /\ commentWarning' = CommentWarning(Len(commits))
  /\ commentBody' = ComposeBody(issues)
  /\ IF commentBody' # <<>>
       THEN /\ posts' = Append(posts, commentWarning'
                                        \o formatCommentBodyForGoogleChat(commentBody'))
            /\ pc' = "posting"
       ELSE /\ posts' = posts
            /\ pc' = "done"
  /\ UNCHANGED << env, commits, page, maxIdx, issueIds, issueIdx, issues,
                  requests, lookups, failures >>

\* createComment returns, or throws into the catch of run.
PostReturn ==
  /\ pc = "posting"
  /\ \/ /\ pc' = "done"
        /\ UNCHANGED failures
     \/ SetFailed("comment failed")
  /\ UNCHANGED << env, commits, page, maxIdx, issueIds, issueIdx, issues,
                  commentWarning, commentBody, requests, lookups, posts >>

Next ==
  \/ Start
  \/ FetchPage
  \/ ResolveIds
  \/ Lookup
  \/ Compose
  \/ PostReturn

Spec == Init /\ [][Next]_vars

\* Pull requests of every length around the page and ceiling boundaries.
PagingFill == { 0, 1, 99, 100, 101, 199, 200, 201, 249, 250, 251, 300 }
PagingPullRequests ==
  { m \o Filler(n) : m \in SeqsUpTo(MessagePool, 1), n \in PagingFill }

PagingInit ==
  /\ hasPR \in BOOLEAN
  /\ prCommits \in PagingPullRequests
  /\ pc = "start"
  /\ commits = <<>>
  /\ page = 1
  /\ maxIdx = 1
  /\ issueIds = <<>>
  /\ issueIdx = 1
  /\ issues = <<>>
  /\ commentWarning = <<>>
  /\ commentBody = <<>>
  /\ requests = <<>>
  /\ lookups = <<>>
  /\ posts = <<>>
  /\ failures = <<>>

\* The run is one sequential process: a step that can be taken is taken.
FairPagingSpec == PagingInit /\ [][Next]_vars /\ WF_vars(Next)

(***************************************************************************)
(* Vocabulary of the properties.                                           *)
(***************************************************************************)
\* The members of a finite set of integers, in ascending order.
Ascending(S) ==
  [k \in 1..Cardinality(S) |-> CHOOSE x \in S : Cardinality({y \in S : y < x}) = k - 1]

\* The lines of a text, split at its newlines.
Lines(t) ==
  LET nl == { i \in 1..Len(t) : t[i] = "\n" }
      starts == Ascending({1} \cup { i + 1 : i \in nl })
      EndOf(b) == IF \E i \in nl : i >= b
                    THEN CHOOSE i \in nl : i >= b /\ \A j \in nl : j >= b => i <= j
                    ELSE Len(t) + 1
  IN [k \in 1..Len(starts) |-> SubSeq(t, starts[k], EndOf(starts[k]) - 1)]

HasPrefix(t, p) == Len(t) >= Len(p) /\ SubSeq(t, 1, Len(p)) = p
HasSuffix(t, p) == Len(t) >= Len(p) /\ SubSeq(t, Len(t) - Len(p) + 1, Len(t)) = p

\* The link line of a block, as it reads in a posted comment.
PostedLinkPrefix == <<"*", "Link:", "*", " ", UrlBase>>

\* The identifiers the link lines of a posted comment point to, top to bottom.
LinkedIds(body) ==
  LET ls == Lines(body)
      at == Ascending({ i \in 1..Len(ls) : HasPrefix(ls[i], PostedLinkPrefix) })
  IN [k \in 1..Len(at) |-> SubSeq(ls[at[k]], Len(PostedLinkPrefix) + 1, Len(ls[at[k]]))]

Range(f) == { f[i] : i \in DOMAIN f }

\* The run is past the resolution of the issue ids.
IdsResolved ==
  \/ pc \in {"lookup", "posting"}
  \/ pc = "done" /\ failures \in { <<>>, <<"comment failed">> }

\* The run is past the composition of the comment.
BodyComposed == pc = "posting" \/ (pc = "done" /\ issueIds # <<>>)

\* The identifiers whose lookup succeeded.
Retrieved == { lookups[i].id : i \in { j \in 1..Len(lookups) : lookups[j].ok } }
IsRetrieved(id) == id \in Retrieved

(***************************************************************************)
(* Reference resolver: what the resolved list is specified to be.          *)
(***************************************************************************)
\* m starts with an opening bracket, HK-, exactly k digits, a closing bracket.
RefMarkedWith(m, k) ==
  /\ k >= 1
  /\ Len(m) >= 5 + k
  /\ SubSeq(m, 1, 4) = <<"[", "H", "K", "-">>
  /\ \A j \in 5..(4 + k) : m[j] \in Digits
  /\ m[5 + k] = "]"

RefMarked(m) == \E k \in 1..Len(m) : RefMarkedWith(m, k)
RefIdOf(m) == SubSeq(m, 2, 4 + CHOOSE k \in 1..Len(m) : RefMarkedWith(m, k))

\* In commit order, the id of each marked message that no earlier message carries.
RefIds(list) ==
  LET marked == { i \in 1..Len(list) : RefMarked(list[i]) }
      first == { i \in marked :
                   \A j \in marked : j < i => RefIdOf(list[j]) # RefIdOf(list[i]) }
      at == Ascending(first)
  IN [k \in 1..Len(at) |-> RefIdOf(list[at[k]])]

NoDuplicates(q) == \A i, j \in 1..Len(q) : q[i] = q[j] => i = j

(***************************************************************************)
(* Properties.                                                             *)
(***************************************************************************)

\* C1: whenever a comment is posted, the identifiers its blocks link to are
\* exactly the identifiers carried by the commit messages whose lookup
\* succeeded: none whose lookup failed, none missing.
PostedIdsAreRetrievedIds ==
  \A k \in 1..Len(posts) :
    Range(LinkedIds(posts[k])) = { id \in Range(RefIds(commits)) : IsRetrieved(id) }

\* A comment was posted although one lookup failed and another succeeded.
PostedWithFailedLookup ==
  /\ posts # <<>>
  /\ \E i, j \in 1..Len(lookups) : lookups[i].ok /\ ~lookups[j].ok

\* C2: the resolved list is, in commit order, the id of every message that
\* starts with the marker, first occurrences only; it has no duplicates.
ResolvedIdsMatchReference ==
  IdsResolved => issueIds = RefIds(commits) /\ NoDuplicates(issueIds)

\* Ids were resolved from commits holding a repeated id and a marker that is
\* not at the start of its message.
ResolvedWithRepeatAndLateMarker ==
  /\ IdsResolved
  /\ issueIds # <<>>
  /\ \E i, j \in 1..Len(commits) :
       i < j /\ RefMarked(commits[i]) /\ RefMarked(commits[j])
             /\ RefIdOf(commits[i]) = RefIdOf(commits[j])
  /\ \E i \in 1..Len(commits) :
       ~RefMarked(commits[i]) /\ \E p \in 2..Len(commits[i]) : commits[i][p] = "["

\* C3: createComment is called at most once and only with a non-empty
\* composed body; with an empty composed body the run is over, has posted
\* nothing and has not failed.
PostOnlyNonEmptyBodyOnce ==
  /\ Len(posts) <= 1
  /\ posts # <<>> => BodyComposed /\ commentBody # <<>>
  /\ BodyComposed /\ commentBody = <<>> =>
       pc = "done" /\ posts = <<>> /\ failures = <<>>

\* The body was composed and came out empty.
ComposedEmptyBody ==
  BodyComposed /\ commentBody = <<>> /\ lookups # <<>>

\* C4: the lookups made are the ids of the list, one attempt each and none
\* skipped after a failure, and a failed lookup does not fail the run.
LookupFailureIsIsolated ==
  /\ Len(lookups) <= Len(issueIds)
  /\ \A i \in 1..Len(lookups) : lookups[i].id = issueIds[i]
  /\ BodyComposed => Len(lookups) = Len(issueIds)
  /\ pc = "lookup" => failures = <<>>
  /\ BodyComposed /\ posts = <<>> => failures = <<>>
  /\ failures # <<>> /\ lookups # <<>> => failures = <<"comment failed">>

\* A lookup failed, a later one succeeded, and the run got past the loop.
LaterLookupAfterFailure ==
  /\ BodyComposed
  /\ \E i, j \in 1..Len(lookups) : i < j /\ ~lookups[i].ok /\ lookups[j].ok

\* C5: with no issue id resolved the run is over in the success state, with
\* no lookup made, nothing composed and nothing posted.
NoIdsEndsQuietly ==
  IdsResolved /\ issueIds = <<>> =>
    /\ pc = "done"
    /\ failures = <<>>
    /\ lookups = <<>>
    /\ commentBody = <<>>
    /\ posts = <<>>

\* Commits were collected and none of them carries an id.
ResolvedNoIdsFromCommits ==
  IdsResolved /\ issueIds = <<>> /\ commits # <<>>

\* C6: without a pull request, or once a commit-page request has raised, the
\* run is over with exactly one failure reported, no lookup and no post; no
\* request follows the one that raised, and none is made without a pull
\* request.
FatalConditionAborts ==
  /\ Len(failures) <= 1
  /\ ~hasPR /\ pc # "start" =>
       /\ pc = "done"
       /\ failures = <<"No pull request found.">>
       /\ requests = <<>>
       /\ lookups = <<>>
       /\ posts = <<>>
  /\ \A i \in 1..Len(requests) :
       ~requests[i].ok =>
         /\ i = Len(requests)
         /\ pc = "done"
         /\ failures = <<"request failed">>
         /\ lookups = <<>>
         /\ posts = <<>>

\* The second page request raised.
SecondPageRaised ==
  Len(requests) = 2 /\ requests[1].ok /\ ~requests[2].ok

\* C7: a posted body starts with the warning when 250 or more commits were
\* collected, and holds no warning when fewer were.
WarningIffCeilingHit ==
  \A k \in 1..Len(posts) :
    /\ Len(commits) >= 250 => HasPrefix(posts[k], WarningText)
    /\ Len(commits) < 250 =>
         /\ HasPrefix(posts[k], <<Backtick, Backtick, Backtick>>)
         /\ \A i \in 1..Len(posts[k]) : posts[k][i] # WarningText[1]

\* A comment was posted after the listing hit the ceiling.
PostedAtCeiling ==
  posts # <<>> /\ Len(commits) >= 250 /\ Len(prCommits) > 250

\* The heading lines of a composed body, top to bottom.
HeadingLines(body) ==
  SelectSeq(Lines(body), LAMBDA l : HasPrefix(l, <<"*", "*", "TECH">>))

\* The title with every grave accent turned into a double quote, trimmed.
RefTitle(t) ==
  Trim([i \in 1..Len(t) |-> IF t[i] = Backtick THEN DQuote ELSE t[i]])

\* C8: the heading of every block carries the title of its issue with every
\* grave accent replaced by a double quote and trimmed.
HeadingTitleFullyNormalised ==
  BodyComposed =>
    LET hs == HeadingLines(commentBody)
    IN /\ Len(hs) = Len(issues)
       /\ \A i \in 1..Len(issues) :
            HasSuffix(hs[i], <<":", " ">> \o RefTitle(issues[i].title) \o <<"*", "*">>)

\* C9: lookups go in the order of the resolved list, the blocks of a posted
\* comment follow the order of first appearance of the ids whose lookup
\* succeeded, and every block ends with a blank line.
BlocksInFirstSeenOrder ==
  /\ [i \in 1..Len(lookups) |-> lookups[i].id] = SubSeq(RefIds(commits), 1, Len(lookups))
  /\ \A k \in 1..Len(posts) :
       LET ls == Lines(posts[k])
       IN /\ LinkedIds(posts[k]) = SelectSeq(RefIds(commits), IsRetrieved)
          /\ \A i \in 1..Len(ls) :
               HasPrefix(ls[i], PostedLinkPrefix) => i < Len(ls) /\ ls[i + 1] = <<>>

\* A comment with the blocks of two issues was posted, a failed lookup
\* between them.
PostedTwoBlocks ==
  /\ posts # <<>>
  /\ Len(lookups) = 3
  /\ lookups[1].ok /\ ~lookups[2].ok /\ lookups[3].ok

\* The paging loop is behind the run.
PagingDone == hasPR /\ pc \notin {"start", "paging"}

\* Pages 1..k were all served in full.
FullUpTo(k) ==
  /\ Len(requests) >= k
  /\ \A j \in 1..k : requests[j].ok /\ requests[j].count = 100

PagingProtocol ==
  /\ Len(requests) <= 3
  /\ \A i \in 1..Len(requests) : requests[i].page = i /\ requests[i].per_page = 100
  /\ \A k \in 1..2 : Len(requests) >= k + 1 => FullUpTo(k)
  /\ PagingDone =>
       /\ Len(requests) >= 1
       /\ \A k \in 1..2 : FullUpTo(k) => Len(requests) >= k + 1

\* C10: pages are requested in the order 1, 2, 3, each once at most; page 1
\* is always requested; page k+1 is requested exactly when pages 1..k came
\* back full; and the loop comes to an end.
PagingFollowsProtocol ==
  /\ []PagingProtocol
  /\ (pc = "paging") ~> (pc # "paging")

\* Three pages were requested, the last one not full.
ThreePagesRequested ==
  PagingDone /\ Len(requests) = 3 /\ requests[3].ok /\ requests[3].count = 50
             /\ Len(prCommits) > 250

====
